---- MODULE Spec2Model ----
(***************************************************************************)
(* Model of the Express/Sequelize REST backend: five entities with CRUD    *)
(* route handlers (src/index.js), the model declarations and associations  *)
(* (src/models/index.js), the JWT gate attached to the protected routes,   *)
(* and the /register and /login handlers.                                  *)
(*                                                                         *)
(* Values: every column value is a string; NULL is the SQL null; integer   *)
(* primary keys are kept as their decimal strings (the path parameter of   *)
(* a request is a string and the database casts it).                       *)
(***************************************************************************)
EXTENDS Integers, FiniteSets, Sequences, TLC

(* ----------------------------- bounds ---------------------------------- *)
\* largest value an auto-increment sequence hands out
MaxId == 2
\* number of store-changing requests explored in one behaviour
MaxWrites == 3
\* last instant of the clock
MaxTime == 1

(* ------------------------------- state --------------------------------- *)
VARIABLES
  db,        \* entity |-> table
  seq,       \* auto-increment entity |-> next key
  now,       \* the clock
  tokens,    \* tokens handed out by /login
  req,       \* the request handled last
  res,       \* its response
  io,        \* what the handler did: ran, storage failed unexpectedly
  hist,      \* history: rows as returned by create, credentials registered
  writes,    \* number of requests that changed the store
  script,    \* the token script: its environment, process and output
  conc       \* the requests the server handles concurrently

vars == <<db, seq, now, tokens, req, res, io, hist, writes, script, conc>>

(* --------------------------- data model -------------------------------- *)
NULL == "null"
UNDEFINED == "undefined"

Entities == {"User", "DID", "Resource", "Document", "DocumentTransaction"}

\* Attrs with a password column declared on User
Attrs_WithPassword(e) ==
  CASE e = "User" -> {"UserID", "Name", "Email", "PhoneNumber", "LoginPIN",
                      "DateOfBirth", "AadhaarNumber", "PANNumber", "UserImage",
                      "password"}
    [] e = "DID" -> {"ID", "Controller", "Created", "Updated", "DIDDocument"}
    [] e = "Resource" -> {"ResourceID", "Payload", "DIDID"}
    [] e = "Document" -> {"DocumentID", "Content", "Created", "Updated", "OwnerID"}
    [] e = "DocumentTransaction" -> {"TransactionID", "TransactionData", "DocumentID"}

\* attributes of each model, including the foreign key its association adds
Attrs(e) ==
  CASE e = "User" -> {"UserID", "Name", "Email", "PhoneNumber", "LoginPIN",
                      "DateOfBirth", "AadhaarNumber", "PANNumber", "UserImage"}
    [] e = "DID" -> {"ID", "Controller", "Created", "Updated", "DIDDocument"}
    [] e = "Resource" -> {"ResourceID", "Payload", "DIDID"}
    [] e = "Document" -> {"DocumentID", "Content", "Created", "Updated", "OwnerID"}
    [] e = "DocumentTransaction" -> {"TransactionID", "TransactionData", "DocumentID"}

PrimaryKey(e) ==
  CASE e = "User" -> "UserID"
    [] e = "DID" -> "ID"
    [] e = "Resource" -> "ResourceID"
    [] e = "Document" -> "DocumentID"
    [] e = "DocumentTransaction" -> "TransactionID"

AutoIncrement(e) == e \in {"User", "Document", "DocumentTransaction"}

\* child entity |-> <<foreign key column, parent entity>>
Associations ==
  [Document |-> <<"OwnerID", "User">>,
   Resource |-> <<"DIDID", "DID">>,
   DocumentTransaction |-> <<"DocumentID", "Document">>]

HasParent(e) == e \in DOMAIN Associations
ForeignKey(e) == Associations[e][1]
Parent(e) == Associations[e][2]
Children(p) == {c \in DOMAIN Associations : Associations[c][2] = p}

(* ------------------------- storage operations -------------------------- *)
\* a table is a function from primary-key values to rows
EmptyTable == [k \in {} |-> NULL]

Field(r, a) == IF a \in DOMAIN r THEN r[a] ELSE NULL

\* Model.build: keys that are not attributes of the model are dropped,
\* attributes that are not given are NULL
Build(e, body) == [a \in Attrs(e) |-> Field(body, a)]

\* the foreign key of a row is NULL or refers to a row of the parent table
ForeignKeyOk(e, row, store) ==
  HasParent(e) =>
    \/ row[ForeignKey(e)] = NULL
    \/ row[ForeignKey(e)] \in DOMAIN store[Parent(e)]

StorageError == "storage error"
ConstraintError == "constraint violation"
ColumnError == "column does not exist"

\* outcome of a storage call: it threw with a message, or it returned a
\* value (found = FALSE stands for a null result) and left store and sequences
Threw(msg, store, sq) ==
  [threw |-> TRUE, message |-> msg, found |-> FALSE, row |-> <<>>,
   store |-> store, seq |-> sq]

Returned(row, store, sq) ==
  [threw |-> FALSE, message |-> "", found |-> TRUE, row |-> row,
   store |-> store, seq |-> sq]

ReturnedNull(store, sq) ==
  [threw |-> FALSE, message |-> "", found |-> FALSE, row |-> <<>>,
   store |-> store, seq |-> sq]

\* Model.create(body) as an upsert: a row with the key of an existing row
\* takes its place
ModelCreate_Upsert(e, body, store, sq, fail) ==
  LET pk == PrimaryKey(e)
      key == IF AutoIncrement(e) THEN ToString(sq[e]) ELSE Field(body, pk)
      row == [Build(e, body) EXCEPT ![pk] = key]
  IN IF fail THEN Threw(StorageError, store, sq)
     ELSE IF key = NULL \/ ~ForeignKeyOk(e, row, store)
       THEN Threw(ConstraintError, store, sq)
     ELSE Returned(row,
                   [store EXCEPT ![e] = (key :> row) @@ store[e]],
                   IF AutoIncrement(e) THEN [sq EXCEPT ![e] = @ + 1] ELSE sq)

\* Model.create(body): INSERT of the built row; the sequence of an
\* auto-increment key supplies the key, a caller-supplied key must be
\* present and new, a foreign key must refer to an existing parent row
ModelCreate(e, body, store, sq, fail) ==
  LET pk == PrimaryKey(e)
      key == IF AutoIncrement(e) THEN ToString(sq[e]) ELSE Field(body, pk)
      row == [Build(e, body) EXCEPT ![pk] = key]
  IN IF fail THEN Threw(StorageError, store, sq)
     ELSE IF key = NULL \/ key \in DOMAIN store[e] \/ ~ForeignKeyOk(e, row, store)
       THEN Threw(ConstraintError, store, sq)
     ELSE Returned(row,
                   [store EXCEPT ![e] = (key :> row) @@ store[e]],
                   IF AutoIncrement(e) THEN [sq EXCEPT ![e] = @ + 1] ELSE sq)

\* Model.findByPk(id): the row, or null when there is none
ModelFindByPk(e, id, store, sq, fail) ==
  IF fail THEN Threw(StorageError, store, sq)
  ELSE IF id \in DOMAIN store[e] THEN Returned(store[e][id], store, sq)
  ELSE ReturnedNull(store, sq)

\* Model.findAll() with a page size of one row
ModelFindAll_Paged(e, store, sq, fail) ==
  IF fail THEN Threw(StorageError, store, sq)
  ELSE IF DOMAIN store[e] = {} THEN Returned({}, store, sq)
  ELSE Returned({store[e][CHOOSE k \in DOMAIN store[e] : TRUE]}, store, sq)

\* Model.findAll(): every row of the table
ModelFindAll(e, store, sq, fail) ==
  IF fail THEN Threw(StorageError, store, sq)
  ELSE Returned({store[e][k] : k \in DOMAIN store[e]}, store, sq)

\* instance.update(body) as a replacement of the whole row
InstanceUpdate_Replace(e, id, body, store, sq, fail) ==
  LET row == [a \in Attrs(e) |->
                IF a = PrimaryKey(e) THEN id ELSE Field(body, a)]
  IN IF fail THEN Threw(StorageError, store, sq)
     ELSE IF ~ForeignKeyOk(e, row, store) THEN Threw(ConstraintError, store, sq)
     ELSE Returned(row, [store EXCEPT ![e] = [@ EXCEPT ![id] = row]], sq)

\* instance.update(body): sets the attributes of the model that the body
\* names, keeps the others, and writes the row back under its key
InstanceUpdate(e, id, body, store, sq, fail) ==
  LET old == store[e][id]
      row == [a \in Attrs(e) |->
                IF a \in DOMAIN body /\ a # PrimaryKey(e) THEN body[a] ELSE old[a]]
  IN IF fail THEN Threw(StorageError, store, sq)
     ELSE IF ~ForeignKeyOk(e, row, store) THEN Threw(ConstraintError, store, sq)
     ELSE Returned(row, [store EXCEPT ![e] = [@ EXCEPT ![id] = row]], sq)

\* the rows of table c after the row id of its parent is deleted, with no
\* action on the foreign keys that referred to it
SetNull_NoAction(c, id, table) == table

\* the rows of table c after the row id of its parent is deleted: the
\* foreign keys that referred to it are set to NULL (ON DELETE SET NULL,
\* the default of hasMany/belongsTo on a nullable key)
SetNull(c, id, table) ==
  [k \in DOMAIN table |->
     IF table[k][ForeignKey(c)] = id
       THEN [table[k] EXCEPT ![ForeignKey(c)] = NULL]
       ELSE table[k]]

\* instance.destroy() under ON DELETE CASCADE: the rows that refer to the
\* deleted row are deleted with it
InstanceDestroy_Cascade(e, id, store, sq, fail) ==
  LET after == [t \in Entities |->
                  IF t = e THEN [k \in DOMAIN store[e] \ {id} |-> store[e][k]]
                  ELSE IF t \in Children(e)
                    THEN [k \in {j \in DOMAIN store[t] :
                                   store[t][j][ForeignKey(t)] # id}
                            |-> store[t][k]]
                  ELSE store[t]]
  IN IF fail THEN Threw(StorageError, store, sq)
     ELSE Returned(<<>>, after, sq)

\* instance.destroy(): DELETE of the row
InstanceDestroy(e, id, store, sq, fail) ==
  LET after == [t \in Entities |->
                  IF t = e THEN [k \in DOMAIN store[e] \ {id} |-> store[e][k]]
                  ELSE IF t \in Children(e) THEN SetNull(t, id, store[t])
                  ELSE store[t]]
  IN IF fail THEN Threw(StorageError, store, sq)
     ELSE Returned(<<>>, after, sq)

(* ------------------------------ tokens --------------------------------- *)
\* lifetime of a token, in clock instants (expiresIn: "1h")
TokenTTL == 1

\* value of process.env.JWT_SECRET
JWT_SECRET == "jwt-secret"

\* jwt.sign(claims, key, { expiresIn }): the payload with its expiry, and a
\* signature over exactly that payload under the key
Sign(claims, key, t) ==
  LET payload == [id |-> claims.id, email |-> claims.email, exp |-> t + TokenTTL]
  IN [payload |-> payload, sig |-> [payload |-> payload, key |-> key]]

\* jwt.verify(token, key): the signature matches the payload under the key
\* and the expiry has not been reached
Verify(token, key, t) ==
  /\ token.sig = [payload |-> token.payload, key |-> key]
  /\ t < token.payload.exp

\* a token whose payload was changed after signing (its expiry pushed out)
Tamper(token) == [token EXCEPT !.payload.exp = @ + MaxTime + 1]

NoHeader == [none |-> TRUE]

\* a token signed at instant 0 with the server's secret for user 1
MintedToken == Sign([id |-> "1", email |-> "a@x.com"], JWT_SECRET, 0)

(* ----------------------------- middleware ------------------------------ *)
\* authenticateJWT that also looks the token's user up in the store
authenticateJWT_Revoking(auth, t) ==
  IF auth = NoHeader THEN {[pass |-> FALSE, status |-> 401]}
  ELSE IF Verify(auth, JWT_SECRET, t) /\ auth.payload.id \in DOMAIN db["User"]
    THEN {[pass |-> TRUE, status |-> 0]}
  ELSE {[pass |-> FALSE, status |-> 401], [pass |-> FALSE, status |-> 403]}

\* authenticateJWT: the outcomes of the gate for an authorization header
authenticateJWT(auth, t) ==
  IF auth = NoHeader THEN {[pass |-> FALSE, status |-> 401]}
  ELSE IF Verify(auth, JWT_SECRET, t) THEN {[pass |-> TRUE, status |-> 0]}
  ELSE {[pass |-> FALSE, status |-> 401], [pass |-> FALSE, status |-> 403]}

\* a route without middleware passes every request to its handler
NoGate == {[pass |-> TRUE, status |-> 0]}

(* ---------------------------- token script ---------------------------- *)
\* number of times the token script is started
MaxRuns == 3

\* lifetime of a token of the script, in clock instants (expiresIn: '1h')
ScriptTokenTTL == 1

\* process.env.ACCESS_TOKEN_SECRET: a configured value, or absent
AbsentSecret == "absent"
ConfiguredSecret == "access-token-secret"
NoSecret == "none"

\* the names the script binds; a free name outside this set throws a
\* ReferenceError when it is used
ScriptScope == {"jwt", "crypto", "accessTokenSecret", "generateAccessToken",
                "user", "accessToken"}

\* the secret a call of generateAccessTokenSecret in run n would return
GeneratedSecret(n) == "random-" \o ToString(n)

\* const accessTokenSecret =
\*   process.env.ACCESS_TOKEN_SECRET || generateAccessTokenSecret():
\* the secret of run n, or NoSecret when the evaluation throws
accessTokenSecret(env, n) ==
  IF env # AbsentSecret THEN env
  ELSE IF "generateAccessTokenSecret" \in ScriptScope THEN GeneratedSecret(n)
  ELSE NoSecret

\* generateAccessToken(payload): jwt.sign(payload, accessTokenSecret,
\* { expiresIn: '1h' })
generateAccessToken(payload, secret, t) ==
  LET signed == [id |-> payload.id, username |-> payload.username,
                 exp |-> t + ScriptTokenTTL]
  IN [payload |-> signed, sig |-> [payload |-> signed, key |-> secret]]

\* const user = { id: 123, username: 'example_user' }
ExampleUser == [id |-> "123", username |-> "example_user"]

NoCheck == [run |-> 0, ok |-> FALSE, live |-> FALSE]

\* the script before its first run, with the environment it will run in
ScriptStopped(env) ==
  [env |-> env, state |-> "stopped", run |-> 0, secret |-> NoSecret,
   printed |-> {}, checked |-> NoCheck]

(* ------------------------- concurrent requests ------------------------- *)
\* number of requests the server has in hand at once
MaxConcurrent == 2

Slots == 1..MaxConcurrent

\* the entity whose create and delete handlers are interleaved
ConcEntity == "DID"
ConcIds == {"d1"}

\* a slot with no request in it
ConcIdle == [pc |-> "idle", op |-> "", id |-> "null", body |-> <<>>, status |-> 0]

\* no request in hand; deleted[id] counts the 204 answers to deletes of id
\* since the row id was last created
ConcQuiet ==
  [slots |-> [p \in Slots |-> ConcIdle], deleted |-> [i \in ConcIds |-> 0]]

(* ------------------------- requests and responses ---------------------- *)
NoRequest == [route |-> "", e |-> "", op |-> "", auth |-> NoHeader,
              id |-> NULL, body |-> <<>>]
NoResponse == [status |-> 0, kind |-> "none", body |-> <<>>]
Idle == [handled |-> FALSE, fail |-> FALSE]

Request(route, e, op, auth, id, body) ==
  [route |-> route, e |-> e, op |-> op, auth |-> auth, id |-> id, body |-> body]

\* res.status(s).json({ error: message })
ErrorResponse(s, message) ==
  [status |-> s, kind |-> "error", body |-> [error |-> message]]
\* res.status(s).json(value)
JsonResponse(s, kind, value) == [status |-> s, kind |-> kind, body |-> value]
\* res.status(s).send()
EmptyResponse(s) == [status |-> s, kind |-> "empty", body |-> <<>>]
\* the response of the gate when it rejects
Rejection(s) == [status |-> s, kind |-> "rejected", body |-> <<>>]

\* the server at its start, on freshly synced tables
ServerInit ==
  /\ db = [e \in Entities |-> EmptyTable]
  /\ seq = [e \in {x \in Entities : AutoIncrement(x)} |-> 1]
  /\ now = 0
  /\ tokens = {}
  /\ req = NoRequest
  /\ res = NoResponse
  /\ io = Idle
  /\ hist = [created |-> EmptyTable, kept |-> EmptyTable, registered |-> {}]
  /\ writes = 0

Init ==
  /\ ServerInit
  /\ script = ScriptStopped(ConfiguredSecret)
  /\ conc = ConcQuiet

(* ------------------------------ inputs --------------------------------- *)
\* authorization headers a client sends: none, a token the server's secret
\* signed, that token tampered with, or a token /login returned
AuthHeaders == {NoHeader, MintedToken, Tamper(MintedToken)} \cup tokens

\* bodies of the create requests: a full row, and where the entity allows
\* it a row without foreign key; a DID body without its key
CreateBodies(e) ==
  CASE e = "User" -> {[Name |-> "A", Email |-> "a@x.com", password |-> "pw"]}
    [] e = "DID" -> {[ID |-> "d1", Controller |-> "c"], [Controller |-> "k"]}
    [] e = "Resource" -> {[ResourceID |-> "r1", Payload |-> "p", DIDID |-> "d1"]}
    [] e = "Document" -> {[Content |-> "x", OwnerID |-> "1"], [Content |-> "y"]}
    [] e = "DocumentTransaction" ->
         {[TransactionData |-> "t", DocumentID |-> "1", UserID |-> "1"],
          [TransactionData |-> "u"]}

\* bodies of the update requests: partial rows
UpdateBodies(e) ==
  CASE e = "User" -> {[Name |-> "B", password |-> "pw"]}
    [] e = "DID" -> {[Controller |-> "k"]}
    [] e = "Resource" -> {[Payload |-> "q"]}
    [] e = "Document" -> {[Content |-> "y", OwnerID |-> "1"]}
    [] e = "DocumentTransaction" -> {[TransactionData |-> "u"]}

Ids(e) ==
  CASE e = "DID" -> {"d1"}
    [] e = "Resource" -> {"r1"}
    [] OTHER -> {ToString(i) : i \in 1..MaxId}

RegisterBodies == {[name |-> "A", email |-> "a@x.com", password |-> "pw"]}

LoginBodies ==
  {[email |-> "a@x.com", password |-> "pw"],
   [email |-> "a@x.com", password |-> "bad"],
   [email |-> "z@x.com", password |-> "pw"]}

\* the passwords clients type
Plaintexts == {"pw", "bad"}

(* ------------------------------ history -------------------------------- *)
Remove(f, S) == [k \in DOMAIN f \ S |-> f[k]]

\* the row <<e, id>> was created and returned as row
NoteCreated(h, e, id, row) ==
  [h EXCEPT !.created = (<<e, id>> :> row) @@ @,
            !.kept = (<<e, id>> :> row) @@ @]

\* the row <<e, id>> was updated
NoteUpdated(h, e, id) ==
  [h EXCEPT !.created = Remove(@, {<<e, id>>}),
            !.kept = Remove(@, {<<e, id>>})]

\* the row <<e, id>> was deleted; kept also forgets the rows of the child
\* tables whose foreign key referred to it
NoteDeleted(h, e, id, store) ==
  LET referring == {<<c, k>> \in DOMAIN h.kept :
                      /\ c \in Children(e)
                      /\ k \in DOMAIN store[c]
                      /\ store[c][k][ForeignKey(c)] = id}
  IN [h EXCEPT !.created = Remove(@, {<<e, id>>}),
               !.kept = Remove(@, {<<e, id>>} \cup referring)]

(* ------------------------------ handlers ------------------------------- *)
\* the end of a request: response sent, store as the handler left it
End(q, rs, ran, failed, store, sq, h, issued) ==
  /\ req' = q
  /\ res' = rs
  /\ io' = [handled |-> ran, fail |-> failed]
  /\ db' = store
  /\ seq' = sq
  /\ hist' = h
  /\ writes' = IF store # db THEN writes + 1 ELSE writes
  /\ writes' <= MaxWrites
  /\ tokens' = issued
  /\ now' = now
  /\ script' = script
  /\ conc' = conc

\* the end of a request that issues no token
Finish(q, rs, ran, failed, store, sq, h) ==
  End(q, rs, ran, failed, store, sq, h, tokens)

Gate(gated, auth) == IF gated THEN authenticateJWT(auth, now) ELSE NoGate

\* app.post("/<entity>", [authenticateJWT,] handler): Model.create(req.body),
\* 201 with the row, catch -> catch status with the message
CreateRoute(route, e, gated, catch) ==
  /\ req = NoRequest
  /\ \E auth \in AuthHeaders, body \in CreateBodies(e), fail \in BOOLEAN :
       \E g \in Gate(gated, auth) :
         LET q == Request(route, e, "create", auth, NULL, body)
             r == ModelCreate(e, body, db, seq, fail)
         IN IF ~g.pass
              THEN /\ ~fail
                   /\ Finish(q, Rejection(g.status), FALSE, FALSE, db, seq, hist)
            ELSE IF r.threw
              THEN Finish(q, ErrorResponse(catch, r.message), TRUE, fail, db, seq, hist)
            ELSE /\ AutoIncrement(e) => seq[e] <= MaxId
                 /\ Finish(q, JsonResponse(201, "row", r.row), TRUE, FALSE,
                           r.store, r.seq,
                           NoteCreated(hist, e, r.row[PrimaryKey(e)], r.row))

\* app.get("/<entity>", ...): Model.findAll(), 200 with the rows
ListRoute(route, e, gated, catch) ==
  /\ req = NoRequest
  /\ \E auth \in AuthHeaders, fail \in BOOLEAN :
       \E g \in Gate(gated, auth) :
         LET q == Request(route, e, "list", auth, NULL, <<>>)
             r == ModelFindAll(e, db, seq, fail)
         IN IF ~g.pass
              THEN /\ ~fail
                   /\ Finish(q, Rejection(g.status), FALSE, FALSE, db, seq, hist)
            ELSE IF r.threw
              THEN Finish(q, ErrorResponse(catch, r.message), TRUE, fail, db, seq, hist)
            ELSE Finish(q, JsonResponse(200, "rows", r.row), TRUE, FALSE, db, seq, hist)

\* app.get("/<entity>/:id", ...): Model.findByPk(id), 200 with the row or
\* 404 with the not-found message
GetRoute(route, e, gated, catch, notFound) ==
  /\ req = NoRequest
  /\ \E auth \in AuthHeaders, id \in Ids(e), fail \in BOOLEAN :
       \E g \in Gate(gated, auth) :
         LET q == Request(route, e, "get", auth, id, <<>>)
             r == ModelFindByPk(e, id, db, seq, fail)
         IN IF ~g.pass
              THEN /\ ~fail
                   /\ Finish(q, Rejection(g.status), FALSE, FALSE, db, seq, hist)
            ELSE IF r.threw
              THEN Finish(q, ErrorResponse(catch, r.message), TRUE, fail, db, seq, hist)
            ELSE IF r.found
              THEN Finish(q, JsonResponse(200, "row", r.row), TRUE, FALSE, db, seq, hist)
            ELSE Finish(q, ErrorResponse(404, notFound), TRUE, FALSE, db, seq, hist)

\* app.put("/<entity>/:id", ...): findByPk, then instance.update(req.body)
\* and 200 with the instance, or 404; failAt names the storage call that
\* fails unexpectedly (0: none)
UpdateRoute(route, e, gated, catch, notFound) ==
  /\ req = NoRequest
  /\ \E auth \in AuthHeaders, id \in Ids(e), body \in UpdateBodies(e), failAt \in 0..2 :
       \E g \in Gate(gated, auth) :
         LET q == Request(route, e, "update", auth, id, body)
             r == ModelFindByPk(e, id, db, seq, failAt = 1)
             u == InstanceUpdate(e, id, body, db, seq, failAt = 2)
         IN IF ~g.pass
              THEN /\ failAt = 0
                   /\ Finish(q, Rejection(g.status), FALSE, FALSE, db, seq, hist)
            ELSE IF r.threw
              THEN Finish(q, ErrorResponse(catch, r.message), TRUE, TRUE, db, seq, hist)
            ELSE IF ~r.found
              THEN /\ failAt = 0
                   /\ Finish(q, ErrorResponse(404, notFound), TRUE, FALSE, db, seq, hist)
            ELSE IF u.threw
              THEN Finish(q, ErrorResponse(catch, u.message), TRUE, failAt = 2,
                          db, seq, hist)
            ELSE Finish(q, JsonResponse(200, "row", u.row), TRUE, FALSE,
                        u.store, seq, NoteUpdated(hist, e, id))

\* app.delete("/<entity>/:id", ...): findByPk, then instance.destroy() and
\* 204 with no body, or 404
DeleteRoute(route, e, gated, catch, notFound) ==
  /\ req = NoRequest
  /\ \E auth \in AuthHeaders, id \in Ids(e), failAt \in 0..2 :
       \E g \in Gate(gated, auth) :
         LET q == Request(route, e, "delete", auth, id, <<>>)
             r == ModelFindByPk(e, id, db, seq, failAt = 1)
             d == InstanceDestroy(e, id, db, seq, failAt = 2)
         IN IF ~g.pass
              THEN /\ failAt = 0
                   /\ Finish(q, Rejection(g.status), FALSE, FALSE, db, seq, hist)
            ELSE IF r.threw
              THEN Finish(q, ErrorResponse(catch, r.message), TRUE, TRUE, db, seq, hist)
            ELSE IF ~r.found
              THEN /\ failAt = 0
                   /\ Finish(q, ErrorResponse(404, notFound), TRUE, FALSE, db, seq, hist)
            ELSE IF d.threw
              THEN Finish(q, ErrorResponse(catch, d.message), TRUE, TRUE, db, seq, hist)
            ELSE Finish(q, EmptyResponse(204), TRUE, FALSE,
                        d.store, seq, NoteDeleted(hist, e, id, db))

\* GetRoute that does not pass the path identifier to findByPk
GetRoute_NoParam(route, e, gated, catch, notFound) ==
  /\ req = NoRequest
  /\ \E auth \in AuthHeaders, id \in Ids(e), fail \in BOOLEAN :
       \E g \in Gate(gated, auth) :
         LET q == Request(route, e, "get", auth, id, <<>>)
             r == ModelFindByPk(e, UNDEFINED, db, seq, fail)
         IN IF ~g.pass
              THEN /\ ~fail
                   /\ Finish(q, Rejection(g.status), FALSE, FALSE, db, seq, hist)
            ELSE IF r.threw
              THEN Finish(q, ErrorResponse(catch, r.message), TRUE, fail, db, seq, hist)
            ELSE IF r.found
              THEN Finish(q, JsonResponse(200, "row", r.row), TRUE, FALSE, db, seq, hist)
            ELSE Finish(q, ErrorResponse(404, notFound), TRUE, FALSE, db, seq, hist)

\* DeleteRoute that answers 204 also when there is no row to delete
DeleteRoute_Lenient(route, e, gated, catch, notFound) ==
  /\ req = NoRequest
  /\ \E auth \in AuthHeaders, id \in Ids(e), failAt \in 0..2 :
       \E g \in Gate(gated, auth) :
         LET q == Request(route, e, "delete", auth, id, <<>>)
             r == ModelFindByPk(e, id, db, seq, failAt = 1)
             d == InstanceDestroy(e, id, db, seq, failAt = 2)
         IN IF ~g.pass
              THEN /\ failAt = 0
                   /\ Finish(q, Rejection(g.status), FALSE, FALSE, db, seq, hist)
            ELSE IF r.threw
              THEN Finish(q, ErrorResponse(catch, r.message), TRUE, TRUE, db, seq, hist)
            ELSE IF ~r.found
              THEN /\ failAt = 0
                   /\ Finish(q, EmptyResponse(204), TRUE, FALSE, db, seq, hist)
            ELSE IF d.threw
              THEN Finish(q, ErrorResponse(catch, d.message), TRUE, TRUE, db, seq, hist)
            ELSE Finish(q, EmptyResponse(204), TRUE, FALSE,
                        d.store, seq, NoteDeleted(hist, e, id, db))

(* ------------------------------- routes -------------------------------- *)
PostResources_Ungated == CreateRoute("POST /resources", "Resource", FALSE, 400)
PostResources == CreateRoute("POST /resources", "Resource", TRUE, 400)
GetResources == ListRoute("GET /resources", "Resource", TRUE, 500)
GetResourcesId ==
  GetRoute("GET /resources/:id", "Resource", TRUE, 500, "Resource not found")
PutResourcesId ==
  UpdateRoute("PUT /resources/:id", "Resource", TRUE, 400, "Resource not found")
DeleteResourcesId ==
  DeleteRoute("DELETE /resources/:id", "Resource", TRUE, 500, "Resource not found")

PostUsers == CreateRoute("POST /users", "User", TRUE, 400)
GetUsers == ListRoute("GET /users", "User", TRUE, 500)
GetUsersId == GetRoute("GET /users/:id", "User", TRUE, 500, "User not found")
PutUsersId == UpdateRoute("PUT /users/:id", "User", TRUE, 400, "User not found")
DeleteUsersId_Lenient ==
  DeleteRoute_Lenient("DELETE /users/:id", "User", TRUE, 500, "User not found")
DeleteUsersId ==
  DeleteRoute("DELETE /users/:id", "User", TRUE, 500, "User not found")

PostDids == CreateRoute("POST /dids", "DID", TRUE, 400)
GetDids == ListRoute("GET /dids", "DID", TRUE, 500)
GetDidsId == GetRoute("GET /dids/:id", "DID", TRUE, 500, "DID not found")
PutDidsId == UpdateRoute("PUT /dids/:id", "DID", TRUE, 400, "DID not found")
DeleteDidsId == DeleteRoute("DELETE /dids/:id", "DID", TRUE, 500, "DID not found")

PostDocuments == CreateRoute("POST /documents", "Document", TRUE, 400)
GetDocuments == ListRoute("GET /documents", "Document", TRUE, 500)
GetDocumentsId_NoParam ==
  GetRoute_NoParam("GET /documents/:id", "Document", TRUE, 500, "Document not found")
GetDocumentsId ==
  GetRoute("GET /documents/:id", "Document", TRUE, 500, "Document not found")
PutDocumentsId ==
  UpdateRoute("PUT /documents/:id", "Document", TRUE, 400, "Document not found")
DeleteDocumentsId_Catch400 ==
  DeleteRoute("DELETE /documents/:id", "Document", TRUE, 400, "Document not found")
DeleteDocumentsId ==
  DeleteRoute("DELETE /documents/:id", "Document", TRUE, 500, "Document not found")

PostDocumenttransactions ==
  CreateRoute("POST /documenttransactions", "DocumentTransaction", FALSE, 400)
GetDocumenttransactions ==
  ListRoute("GET /documenttransactions", "DocumentTransaction", FALSE, 500)
GetDocumenttransactionsId ==
  GetRoute("GET /documenttransactions/:id", "DocumentTransaction", FALSE, 500,
           "DocumentTransaction not found")
PutDocumenttransactionsId ==
  UpdateRoute("PUT /documenttransactions/:id", "DocumentTransaction", FALSE, 400,
              "DocumentTransaction not found")
DeleteDocumenttransactionsId_Gated ==
  DeleteRoute("DELETE /documenttransactions/:id", "DocumentTransaction", TRUE,
              500, "DocumentTransaction not found")
DeleteDocumenttransactionsId ==
  DeleteRoute("DELETE /documenttransactions/:id", "DocumentTransaction", FALSE,
              500, "DocumentTransaction not found")

(* -------------------------- register and login ------------------------- *)
\* the names bound at module level of the server: the require() calls and
\* the app; a free name outside this set throws a ReferenceError when used
InScope == {"express", "bodyParser", "User", "Resource", "DocumentTransaction",
            "DID", "Document", "setupSwagger", "authenticateJWT", "app"}

NotDefined(name) == name \o " is not defined"

InvalidCredentials == "Invalid email or password."
HashArguments == "data and hash arguments required"

\* bcrypt.hash(password, 10)
Hash(password) == "$2b$10$" \o password
\* bcrypt.compare(password, hash)
Compare(password, hash) == hash = Hash(password)

\* instance.<name>: the attribute of that name, undefined when the model
\* has none
Prop(row, name) == IF name \in DOMAIN row THEN row[name] ELSE UNDEFINED

\* Model.findOne({ where: { column: value } }): the rows the query can
\* return; the query throws when the table has no such column
ModelFindOne(e, column, value, store, sq, fail) ==
  IF fail THEN Threw(StorageError, store, sq)
  ELSE IF column \notin Attrs(e) THEN Threw(ColumnError, store, sq)
  ELSE Returned({store[e][k] : k \in {i \in DOMAIN store[e] :
                                        store[e][i][column] = value}},
                store, sq)

\* app.post("/register")
Register ==
  /\ req = NoRequest
  /\ \E body \in RegisterBodies, fail \in BOOLEAN :
       LET q == Request("POST /register", "User", "register", NoHeader, NULL, body)
           h == [hist EXCEPT !.registered = @ \cup {<<body.email, body.password>>}]
           r == ModelCreate("User",
                            [name |-> body.name, email |-> body.email,
                             password |-> Hash(body.password)],
                            db, seq, fail)
       IN IF "bcrypt" \notin InScope
            THEN /\ ~fail
                 /\ Finish(q, ErrorResponse(400, NotDefined("bcrypt")), TRUE, FALSE,
                           db, seq, h)
          ELSE IF r.threw
            THEN Finish(q, ErrorResponse(400, r.message), TRUE, fail, db, seq, hist)
          ELSE /\ seq["User"] <= MaxId
               /\ Finish(q, JsonResponse(201, "row", r.row), TRUE, FALSE,
                         r.store, r.seq,
                         NoteCreated(h, "User", r.row["UserID"], r.row))

\* the rest of /login once findOne returned the row user
LoginAs(q, user, password) ==
  IF "bcrypt" \notin InScope
    THEN Finish(q, ErrorResponse(400, NotDefined("bcrypt")), TRUE, FALSE,
                db, seq, hist)
  ELSE IF Prop(user, "password") = UNDEFINED
    THEN Finish(q, ErrorResponse(400, HashArguments), TRUE, FALSE, db, seq, hist)
  ELSE IF ~Compare(password, Prop(user, "password"))
    THEN Finish(q, ErrorResponse(400, InvalidCredentials), TRUE, FALSE,
                db, seq, hist)
  ELSE IF "jwt" \notin InScope
    THEN Finish(q, ErrorResponse(400, NotDefined("jwt")), TRUE, FALSE,
                db, seq, hist)
  ELSE LET token == Sign([id |-> Prop(user, "id"), email |-> Prop(user, "email")],
                         JWT_SECRET, now)
       IN End(q, JsonResponse(200, "token", [token |-> token]), TRUE, FALSE,
              db, seq, hist, tokens \cup {token})

\* app.post("/login")
Login ==
  /\ req = NoRequest
  /\ \E body \in LoginBodies, fail \in BOOLEAN :
       LET q == Request("POST /login", "User", "login", NoHeader, NULL, body)
           r == ModelFindOne("User", "email", body.email, db, seq, fail)
       IN IF r.threw
            THEN Finish(q, ErrorResponse(400, r.message), TRUE, fail, db, seq, hist)
          ELSE IF r.row = {}
            THEN Finish(q, ErrorResponse(400, InvalidCredentials), TRUE, FALSE,
                        db, seq, hist)
          ELSE \E user \in r.row : LoginAs(q, user, body.password)

(* -------------------------------- clock -------------------------------- *)
\* time passes while the server waits for a request
Tick ==
  /\ req = NoRequest
  /\ now < MaxTime
  /\ now' = now + 1
  /\ UNCHANGED <<db, seq, tokens, req, res, io, hist, writes, script, conc>>

(* ------------------------------- server -------------------------------- *)
\* the response has been sent and the server waits for the next request
Listen ==
  /\ req # NoRequest
  /\ req' = NoRequest
  /\ res' = NoResponse
  /\ io' = Idle
  /\ UNCHANGED <<db, seq, now, tokens, hist, writes, script, conc>>

(* ----------------------------- specification --------------------------- *)
Next ==
  \/ PostResources \/ GetResources \/ GetResourcesId
  \/ PutResourcesId \/ DeleteResourcesId
  \/ PostUsers \/ GetUsers \/ GetUsersId \/ PutUsersId \/ DeleteUsersId
  \/ PostDids \/ GetDids \/ GetDidsId \/ PutDidsId \/ DeleteDidsId
  \/ PostDocuments \/ GetDocuments \/ GetDocumentsId
  \/ PutDocumentsId \/ DeleteDocumentsId
  \/ PostDocumenttransactions \/ GetDocumenttransactions
  \/ GetDocumenttransactionsId \/ PutDocumenttransactionsId
  \/ DeleteDocumenttransactionsId
  \/ Register \/ Login
  \/ Tick \/ Listen

Spec == Init /\ [][Next]_vars

TypeOK ==
  /\ now \in 0..MaxTime
  /\ writes \in 0..MaxWrites
  /\ \A e \in DOMAIN seq : seq[e] \in 1..(MaxId + 1)
  /\ \A e \in Entities : \A k \in DOMAIN db[e] : db[e][k][PrimaryKey(e)] = k

(* ------------------------------- claims -------------------------------- *)
GatedEntities == {"User", "Resource", "DID", "Document"}
CrudOps == {"create", "list", "get", "update", "delete"}

\* the request carried a bearer token that verifies at instant t
Verifies(q, t) == q.auth # NoHeader /\ Verify(q.auth, JWT_SECRET, t)

\* C1: on every User, Resource, DID and Document route the handler's
\* storage operation runs only for a request whose bearer token verifies,
\* and a request without an authorization header is answered 401 without
\* running the handler and leaves the store as it was.
C1_GateBeforeStorage ==
  [][(req' # NoRequest /\ req'.e \in GatedEntities /\ req'.op \in CrudOps) =>
       /\ io'.handled => Verifies(req', now')
       /\ req'.auth = NoHeader =>
            /\ res'.status = 401
            /\ ~io'.handled
            /\ db' = db
            /\ seq' = seq]_vars

C1_Witness ==
  /\ req.route = "DELETE /documents/:id"
  /\ req.auth = NoHeader
  /\ req.id \in DOMAIN db["Document"]
  /\ res.status = 401

\* C2 (as claimed): a login with credentials that were registered answers
\* 200 with a token; that token is accepted by every protected route until
\* its expiry; an expired or tampered token is rejected by every protected
\* route.
C2_LoginTokenAccepted ==
  /\ (/\ req.route = "POST /login"
      /\ ~io.fail
      /\ <<req.body.email, req.body.password>> \in hist.registered)
       => /\ res.status = 200
          /\ res.kind = "token"
          /\ Verify(res.body.token, JWT_SECRET, now)
  /\ (/\ req.e \in GatedEntities
      /\ req.op \in CrudOps
      /\ req.auth \in tokens
      /\ now < req.auth.payload.exp)
       => io.handled
  /\ (/\ req.e \in GatedEntities
      /\ req.op \in CrudOps
      /\ req.auth # NoHeader
      /\ ~Verify(req.auth, JWT_SECRET, now))
       => /\ ~io.handled
          /\ res.status \in {401, 403}

\* C3 (as claimed): a login with an email no user has and a login with a
\* wrong password both answer 400 with the InvalidCredentials body.
C3_SameFailureShape ==
  (/\ req.route = "POST /login"
   /\ ~io.fail
   /\ <<req.body.email, req.body.password>> \notin hist.registered)
    => res = ErrorResponse(400, InvalidCredentials)

\* C4 (as claimed): POST /register answers 201 with a row whose password is
\* not the plaintext; POST /login with the registered credentials answers
\* 200 with a token; GET /users without a header answers 401; GET /users
\* with the token answers 200 with the rows, the registered user among them.
C4_RegisterLoginScenario ==
  /\ (req.route = "POST /register" /\ ~io.fail)
       => /\ res.status = 201
          /\ res.kind = "row"
          /\ \A a \in DOMAIN res.body : res.body[a] \notin Plaintexts
  /\ (/\ req.route = "POST /login"
      /\ ~io.fail
      /\ <<req.body.email, req.body.password>> \in hist.registered)
       => res.status = 200 /\ res.kind = "token"
  /\ (req.route = "GET /users" /\ req.auth = NoHeader) => res.status = 401
  /\ (req.route = "GET /users" /\ req.auth \in tokens /\ ~io.fail
        /\ now < req.auth.payload.exp)
       => /\ res.status = 200
          /\ res.kind = "rows"
          /\ \E u \in res.body : u["Email"] = req.auth.payload.email

\* C5 (as claimed): a get by the identifier of a created row, with no update
\* or delete of that identifier since, answers 200 with the created row.
C5_CreateThenGet ==
  (/\ req.op = "get"
   /\ io.handled
   /\ ~io.fail
   /\ <<req.e, req.id>> \in DOMAIN hist.created)
    => /\ res.status = 200
       /\ res.body = hist.created[<<req.e, req.id>>]

\* C5 (amended): a get by the identifier of a created row, with no update or
\* delete of that identifier and no delete of the parent row its foreign key
\* refers to since, answers 200 with the created row.
C5_CreateThenGetKept ==
  (/\ req.op = "get"
   /\ io.handled
   /\ ~io.fail
   /\ <<req.e, req.id>> \in DOMAIN hist.kept)
    => /\ res.status = 200
       /\ res.body = hist.kept[<<req.e, req.id>>]

C5_Witness ==
  /\ req.route = "GET /documents/:id"
  /\ <<"Document", req.id>> \in DOMAIN hist.kept
  /\ res.status = 200
  /\ res.body["OwnerID"] # NULL

\* C6: a get, update or delete that reaches its handler, meets no storage
\* failure and names an identifier with no row (never created, or deleted)
\* answers 404 and leaves the store as it was; so a second delete of an
\* identifier answers 404 and changes nothing.
C6_AbsentIsNotFound ==
  [][(/\ req' # NoRequest
      /\ req'.op \in {"get", "update", "delete"}
      /\ io'.handled
      /\ ~io'.fail
      /\ req'.id \notin DOMAIN db[req'.e])
       => /\ res'.status = 404
          /\ res'.kind = "error"
          /\ db' = db
          /\ seq' = seq]_vars

\* a delete of user 1 answered 404 after user 1 was created and deleted
C6_Witness ==
  /\ req.route = "DELETE /users/:id"
  /\ req.id = "1"
  /\ seq["User"] > 1
  /\ res.status = 404

\* C7: every DocumentTransaction route runs its handler and answers with the
\* handler's status whatever the authorization header is; it never answers
\* 401 or 403, and a create without a header inserts its row.
C7_TransactionsUngated ==
  [][(req' # NoRequest /\ req'.e = "DocumentTransaction") =>
       /\ io'.handled
       /\ res'.status \in {200, 201, 204, 400, 404, 500}
       /\ (/\ req'.op = "create"
           /\ ~io'.fail
           /\ ForeignKeyOk("DocumentTransaction",
                           Build("DocumentTransaction", req'.body), db))
            => /\ res'.status = 201
               /\ DOMAIN db'["DocumentTransaction"] # DOMAIN db["DocumentTransaction"]
       /\ (req'.op = "delete" /\ ~io'.fail
             /\ req'.id \in DOMAIN db["DocumentTransaction"])
            => /\ res'.status = 204
               /\ req'.id \notin DOMAIN db'["DocumentTransaction"]]_vars

C7_Witness ==
  /\ req.route = "DELETE /documenttransactions/:id"
  /\ ~Verifies(req, now)
  /\ res.status = 204

\* C8: no stored User row holds a plaintext password in any column.
C8_NoPlaintextPassword ==
  \A k \in DOMAIN db["User"] :
    \A a \in DOMAIN db["User"][k] : db["User"][k][a] \notin Plaintexts

\* a User create or update whose body carried a password succeeded
C8_Witness ==
  /\ req.route \in {"POST /users", "PUT /users/:id"}
  /\ "password" \in DOMAIN req.body
  /\ res.status \in {200, 201}
  /\ db["User"] # EmptyTable

\* C9: when a storage call of a CRUD handler fails unexpectedly the response
\* is 400 for create and update and 500 for list, get and delete, and every
\* failure response of a handler has the body { error: message }.
C9_FailureStatus ==
  /\ (io.fail /\ req.op \in CrudOps) =>
       res = ErrorResponse(IF req.op \in {"create", "update"} THEN 400 ELSE 500,
                           StorageError)
  /\ (io.handled /\ res.status >= 400) =>
       /\ res.kind = "error"
       /\ DOMAIN res.body = {"error"}

C9_Witness ==
  /\ req.route = "DELETE /documents/:id"
  /\ req.id \in DOMAIN db["Document"]
  /\ io.fail
  /\ res.status = 500

\* C10: a request to a protected route that carries an unexpired token signed
\* with the server's secret is authenticated and its handler runs, whether or
\* not the User row the token names still exists or was changed.
C10_NoRevocation ==
  (/\ req.e \in GatedEntities
   /\ req.op \in CrudOps
   /\ Verifies(req, now))
    => /\ io.handled
       /\ res.status \notin {401, 403}

\* the user the token names was created and deleted, and the token is accepted
C10_Witness ==
  /\ req.e \in GatedEntities
  /\ req.op \in CrudOps
  /\ Verifies(req, now)
  /\ seq["User"] > 1
  /\ req.auth.payload.id \notin DOMAIN db["User"]
  /\ io.handled

(* ------------------------ token script: actions ------------------------ *)
\* node token.js: the process starts and evaluates accessTokenSecret; the
\* process dies there when the evaluation throws
ScriptStart ==
  /\ req = NoRequest
  /\ script.state = "stopped"
  /\ script.run < MaxRuns
  /\ LET n == script.run + 1
         secret == accessTokenSecret(script.env, n)
     IN script' = [script EXCEPT !.run = n,
                                 !.secret = secret,
                                 !.state = IF secret = NoSecret THEN "crashed"
                                           ELSE "loaded",
                                 !.checked = NoCheck]
  /\ UNCHANGED <<db, seq, now, tokens, req, res, io, hist, writes, conc>>

\* const accessToken = generateAccessToken(user); console.log(...)
ScriptIssue ==
  /\ req = NoRequest
  /\ script.state = "loaded"
  /\ script' = [script EXCEPT
       !.printed = @ \cup {[token |-> generateAccessToken(ExampleUser,
                                                          script.secret, now),
                            run |-> script.run]},
       !.state = "issued",
       !.checked = NoCheck]
  /\ UNCHANGED <<db, seq, now, tokens, req, res, io, hist, writes, conc>>

\* a token the script printed is verified with the secret of the running
\* process
ScriptVerify ==
  /\ req = NoRequest
  /\ script.state \in {"loaded", "issued"}
  /\ \E p \in script.printed :
       script' = [script EXCEPT !.checked =
                    [run |-> p.run,
                     ok |-> Verify(p.token, script.secret, now),
                     live |-> now < p.token.payload.exp]]
  /\ UNCHANGED <<db, seq, now, tokens, req, res, io, hist, writes, conc>>

\* the process ends (end of the script, or the uncaught error); its secret
\* is gone with it
ScriptExit ==
  /\ req = NoRequest
  /\ script.state \in {"loaded", "issued", "crashed"}
  /\ script' = [script EXCEPT !.state = "stopped", !.secret = NoSecret,
                              !.checked = NoCheck]
  /\ UNCHANGED <<db, seq, now, tokens, req, res, io, hist, writes, conc>>

TokenInit ==
  /\ ServerInit
  /\ conc = ConcQuiet
  /\ \E env \in {AbsentSecret, ConfiguredSecret} : script = ScriptStopped(env)

TokenNext == ScriptStart \/ ScriptIssue \/ ScriptVerify \/ ScriptExit \/ Tick

TokenSpec == TokenInit /\ [][TokenNext]_vars

\* C11 (as claimed): a started process has a signing secret, the configured
\* one or, when none is configured, one generated at its start; without a
\* configured secret a token issued by an earlier run fails verification in
\* a later run; with a configured secret a token issued by an earlier run
\* verifies in a later run until its expiry.
C11_SecretAcrossRestarts ==
  /\ script.state \in {"loaded", "issued", "crashed"}
       => /\ script.state # "crashed"
          /\ script.secret # NoSecret
  /\ (script.env = AbsentSecret /\ script.checked.run \in 1..(script.run - 1))
       => ~script.checked.ok
  /\ (/\ script.env # AbsentSecret
      /\ script.checked.run \in 1..(script.run - 1)
      /\ script.checked.live)
       => script.checked.ok

(* --------------------------- claims, continued ------------------------- *)
\* the step is a handler of operation op that ran (the gate let it through)
\* on a row that was in the store
RanOnExisting(op) ==
  /\ req' # NoRequest
  /\ req'.op = op
  /\ io'.handled
  /\ req'.id \in DOMAIN db[req'.e]

\* every table but e, and every row of e but id, is as before the step
OthersUnchanged(e, id) ==
  /\ \A t \in Entities \ {e} : db'[t] = db[t]
  /\ DOMAIN db'[e] = DOMAIN db[e]
  /\ \A k \in DOMAIN db[e] \ {id} : db'[e][k] = db[e][k]

C13_OwnEntityOnly ==
  [][req' # NoRequest =>
       LET e == req'.e
           id == req'.id
       IN /\ \A t \in Entities \ {e} :
               db'[t] = IF /\ req'.op = "delete"
                           /\ res'.status = 204
                           /\ t \in Children(e)
                          THEN SetNull(t, id, db[t])
                          ELSE db[t]
          /\ req'.op \in {"get", "list"} => db' = db]_vars

\* a User was deleted while a Document existed, and the Document is still
\* in the store
C13_Witness ==
  /\ req.op = "delete"
  /\ req.e = "User"
  /\ res.status = 204
  /\ DOMAIN db["Document"] # {}
  /\ \E k \in DOMAIN hist.created :
       k[1] = "Document" /\ hist.created[k].OwnerID = req.id

\* C14: a list request whose handler ran and whose read did not fail is
\* answered 200 with exactly the rows of its entity that are in the store;
\* and the rows in the store are the rows created and not yet deleted: a
\* create answered 201 puts its row in the table, a delete answered 204
\* takes its row out, and no other request adds or removes a row.
C14_ListIsStore ==
  [][req' # NoRequest =>
       LET e == req'.e
           q == req'
       IN /\ (q.op = "list" /\ io'.handled /\ ~io'.fail)
               => /\ res'.status = 200
                  /\ res'.kind = "rows"
                  /\ res'.body = {db[e][k] : k \in DOMAIN db[e]}
                  /\ db' = db
          /\ (q.op = "create" /\ res'.status = 201)
               => /\ DOMAIN db'[e] = DOMAIN db[e] \cup {res'.body[PrimaryKey(e)]}
                  /\ res'.body[PrimaryKey(e)] \notin DOMAIN db[e]
                  /\ db'[e][res'.body[PrimaryKey(e)]] = res'.body
          /\ (q.op = "delete" /\ res'.status = 204)
               => /\ q.id \in DOMAIN db[e]
                  /\ DOMAIN db'[e] = DOMAIN db[e] \ {q.id}
          /\ ~(q.op = "create" /\ res'.status = 201)
               /\ ~(q.op = "delete" /\ res'.status = 204)
               => \A t \in Entities : DOMAIN db'[t] = DOMAIN db[t]
          /\ \A t \in Entities \ {e} : DOMAIN db'[t] = DOMAIN db[t]]_vars

\* two Users were created and one of them deleted; the list holds the one
\* that is left
C14_Witness ==
  /\ req.op = "list"
  /\ req.e = "User"
  /\ res.status = 200
  /\ seq["User"] = 3
  /\ Cardinality(res.body) = 1
  /\ res.body = {db["User"][k] : k \in DOMAIN db["User"]}

(* ---------------- concurrent handlers of /dids: actions ---------------- *)
\* the handler in slot p stops at pc with the response status, if any
ConcStep(p, pc, status, store, deleted) ==
  /\ conc' = [slots |-> [conc.slots EXCEPT ![p] = [@ EXCEPT !.pc = pc,
                                                           !.status = status]],
              deleted |-> deleted]
  /\ db' = store
  /\ UNCHANGED <<seq, now, tokens, req, res, io, hist, writes, script>>

\* a POST /dids or DELETE /dids/:id request arrives while others are in
\* hand; authenticateJWT answers it or passes it to its handler, which stops
\* at its first await
ConcArrive(p) ==
  /\ conc.slots[p].pc = "idle"
  /\ \E auth \in AuthHeaders :
       \E g \in Gate(TRUE, auth) :
         \/ \E body \in CreateBodies(ConcEntity) :
              /\ conc' = [conc EXCEPT !.slots[p] =
                            [pc |-> IF g.pass THEN "create" ELSE "done",
                             op |-> "create", id |-> "null", body |-> body,
                             status |-> IF g.pass THEN 0 ELSE g.status]]
         \/ \E id \in ConcIds :
              /\ conc' = [conc EXCEPT !.slots[p] =
                            [pc |-> IF g.pass THEN "findByPk" ELSE "done",
                             op |-> "delete", id |-> id, body |-> <<>>,
                             status |-> IF g.pass THEN 0 ELSE g.status]]
  /\ UNCHANGED <<db, seq, now, tokens, req, res, io, hist, writes, script>>

\* await DID.create(req.body), then 201, or 400 from the catch
ConcCreate(p) ==
  /\ conc.slots[p].pc = "create"
  /\ \E fail \in BOOLEAN :
       LET r == ModelCreate(ConcEntity, conc.slots[p].body, db, seq, fail)
       IN IF r.threw
            THEN ConcStep(p, "done", 400, db, conc.deleted)
            ELSE ConcStep(p, "done", 201, r.store,
                          [conc.deleted EXCEPT
                             ![r.row[PrimaryKey(ConcEntity)]] = 0])

\* const did = await DID.findByPk(req.params.id), then the test of did:
\* 404 when it is null, else on to did.destroy(); 500 from the catch
ConcFindByPk(p) ==
  /\ conc.slots[p].pc = "findByPk"
  /\ \E fail \in BOOLEAN :
       LET r == ModelFindByPk(ConcEntity, conc.slots[p].id, db, seq, fail)
       IN IF r.threw THEN ConcStep(p, "done", 500, db, conc.deleted)
          ELSE IF ~r.found THEN ConcStep(p, "done", 404, db, conc.deleted)
          ELSE ConcStep(p, "destroy", 0, db, conc.deleted)

\* await did.destroy(), then 204; 500 from the catch
ConcDestroy(p) ==
  /\ conc.slots[p].pc = "destroy"
  /\ \E fail \in BOOLEAN :
       LET id == conc.slots[p].id
           d == InstanceDestroy(ConcEntity, id, db, seq, fail)
       IN IF d.threw THEN ConcStep(p, "done", 500, db, conc.deleted)
          ELSE ConcStep(p, "done", 204, d.store,
                        [conc.deleted EXCEPT ![id] = @ + 1])

\* the response is sent and the slot is free again
ConcRespond(p) ==
  /\ conc.slots[p].pc = "done"
  /\ conc' = [conc EXCEPT !.slots[p] = ConcIdle]
  /\ UNCHANGED <<db, seq, now, tokens, req, res, io, hist, writes, script>>

ConcNext ==
  \E p \in Slots :
    \/ ConcArrive(p)
    \/ ConcCreate(p)
    \/ ConcFindByPk(p)
    \/ ConcDestroy(p)
    \/ ConcRespond(p)

ConcSpec == Init /\ [][ConcNext]_vars

\* C15 (as claimed): with delete requests for one identifier interleaved at
\* their storage calls, at most one of them is answered 204 for one created
\* row.
C15_AtMostOneDeleted ==
  \A id \in ConcIds : conc.deleted[id] <= 1

\* C16: in every state every foreign key that is not NULL names a row of
\* the parent table: each Resource's DIDID a DID, each Document's OwnerID a
\* User, each DocumentTransaction's DocumentID a Document.
C16_ForeignKeysRefer ==
  /\ \A k \in DOMAIN db["Resource"] :
       db["Resource"][k].DIDID # NULL
         => db["Resource"][k].DIDID \in DOMAIN db["DID"]
  /\ \A k \in DOMAIN db["Document"] :
       db["Document"][k].OwnerID # NULL
         => db["Document"][k].OwnerID \in DOMAIN db["User"]
  /\ \A k \in DOMAIN db["DocumentTransaction"] :
       db["DocumentTransaction"][k].DocumentID # NULL
         => db["DocumentTransaction"][k].DocumentID \in DOMAIN db["Document"]

\* a Document was created with an owner, the owner was deleted, and the
\* Document is in the store with no owner
C16_Witness ==
  /\ req.op = "delete"
  /\ req.e = "User"
  /\ res.status = 204
  /\ \E k \in DOMAIN db["Document"] :
       /\ <<"Document", k>> \in DOMAIN hist.created
       /\ hist.created[<<"Document", k>>].OwnerID = req.id
       /\ db["Document"][k].OwnerID = NULL

\* C17: a request answered 400, 401, 403, 404 or 500 leaves every table as
\* it was before the request; and a create whose caller-supplied primary key
\* (DID ID, Resource ResourceID) is the key of an existing row is answered
\* 400 when its handler runs, and the existing row stays as it was with no
\* second row of that key.
C17_ErrorsKeepStore ==
  [][req' # NoRequest =>
       LET e == req'.e
           key == Field(req'.body, PrimaryKey(e))
       IN /\ res'.status \in {400, 401, 403, 404, 500} => db' = db
          /\ (/\ req'.op = "create"
              /\ ~AutoIncrement(e)
              /\ key \in DOMAIN db[e]
              /\ io'.handled)
               => /\ res'.status = 400
                  /\ db' = db]_vars

\* a DID was created and updated, and a create with its ID and other values
\* is answered 400 with the row as the update left it
C17_Witness ==
  /\ req.op = "create"
  /\ req.e = "DID"
  /\ io.handled
  /\ ~io.fail
  /\ res.status = 400
  /\ Field(req.body, "ID") \in DOMAIN db["DID"]
  /\ db["DID"][req.body.ID].Controller # req.body.Controller

====
